---- MODULE Spec2Model ----
(***************************************************************************)
(* pi_pact.py: BLE beacon advertiser / scanner.                            *)
(*                                                                         *)
(* The model covers the validated controllers (Advertiser, Scanner), their *)
(* control file, the advertise() and scan() loops, the scan record         *)
(* pipeline (process_scans, filter_advertisements) and load_config.        *)
(*                                                                         *)
(* Specifications:                                                         *)
(*   Spec       - life cycle of one controller: construction, sessions,    *)
(*                external writes to the control file, destruction.        *)
(*   SpecCtor   - construction alone, over a wide set of keyword values.   *)
(*   SpecFilter - filter_advertisements over bounded tables and filters.   *)
(*   SpecConfig - repeated load_config calls over the module-level         *)
(*                DEFAULT_CONFIG.                                          *)
(*                                                                         *)
(* Time is counted in whole seconds.                                       *)
(***************************************************************************)
EXTENDS Integers, Sequences, FiniteSets, TLC

---------------------------------------------------------------------------
\* Python values, tagged with their type.

PyNone == [type |-> "NoneType", val |-> 0]
PyInt(n) == [type |-> "int", val |-> n]
PyFloat(n) == [type |-> "float", val |-> n]
PyStr(s) == [type |-> "str", val |-> s]
PyList(l) == [type |-> "list", val |-> l]
PyDict(d) == [type |-> "dict", val |-> d]
PyBool(b) == [type |-> "bool", val |-> b]

\* An attribute that has not been assigned (reading it is an AttributeError).
Unset == [type |-> "unset", val |-> 0]

\* bool(v)
Truthy(v) ==
    CASE v.type = "NoneType" -> FALSE
      [] v.type \in {"int", "float"} -> v.val /= 0
      [] v.type = "str" -> v.val /= ""
      [] v.type \in {"list", "dict"} -> Len(v.val) > 0
      [] OTHER -> TRUE

---------------------------------------------------------------------------
\* Module-level settings of pi_pact.py.

CONTROL_INTERVAL == 1
MAX_TIMEOUT == 600
ID_FILTERS == {"ADDRESS", "UUID", "MAJOR", "MINOR", "TX POWER"}
MEASUREMENT_FILTERS == {"TIMESTAMP", "RSSI"}
MAJOR_LIMITS == <<1, 65535>>
MINOR_LIMITS == <<1, 65535>>
TX_POWER_LIMITS == <<-40, 4>>
INTERVAL_LIMITS == <<20, 10000>>
ALLOWABLE_FILTERS == ID_FILTERS \cup MEASUREMENT_FILTERS

\* The literal the module assigns to DEFAULT_CONFIG (logger section left out).
BuiltinDefaults ==
    [advertiser |->
        [control_file |-> PyStr("advertiser_control"),
         timeout |-> PyNone,
         uuid |-> PyStr(""),
         major |-> PyInt(1),
         minor |-> PyInt(1),
         tx_power |-> PyInt(1),
         interval |-> PyInt(200)],
     scanner |->
        [control_file |-> PyStr("scanner_control"),
         scan_prefix |-> PyStr("pi_pact_scan"),
         timeout |-> PyNone,
         revisit |-> PyInt(1),
         filters |-> PyDict(<<>>)]]

\* Iteration order of DEFAULT_CONFIG['advertiser'] and DEFAULT_CONFIG['scanner'].
AdvertiserKeys ==
    <<"control_file", "timeout", "uuid", "major", "minor", "tx_power", "interval">>
ScannerKeys == <<"control_file", "scan_prefix", "timeout", "revisit", "filters">>
Keys(role) == IF role = "advertiser" THEN AdvertiserKeys ELSE ScannerKeys
Range(s) == {s[i] : i \in DOMAIN s}
AllKeys == Range(AdvertiserKeys) \cup Range(ScannerKeys)

\* uuid1(): a 128-bit identifier, here its 32 hexadecimal digits, with the
\* version digit 1 and a variant digit in 8..11; two such identifiers.
Uuid1Values ==
    {[i \in 1..32 |->
        IF i = 13 THEN 1 ELSE IF i = 17 THEN 8 + (k % 4) ELSE (i * k) % 16] :
            k \in {3, 7}}

\* '%032x' % int: the digits as characters, from the i-th on
RECURSIVE Hex(_, _)
Hex(digits, i) ==
    IF i > Len(digits) THEN ""
    ELSE SubSeq("0123456789abcdef", digits[i] + 1, digits[i] + 1) \o Hex(digits, i + 1)

\* A str() that leaves the hyphens out.
StrUuid_NoHyphens(u) == [type |-> "str", val |-> Hex(u, 1)]

\* str(u) for a UUID u: the 32 digits in groups of 8, 4, 4, 4 and 12
StrUuid(u) ==
    LET h == Hex(u, 1) IN
    [type |-> "str",
     val |-> SubSeq(h, 1, 8) \o "-" \o SubSeq(h, 9, 12) \o "-" \o SubSeq(h, 13, 16)
                \o "-" \o SubSeq(h, 17, 20) \o "-" \o SubSeq(h, 21, 32)]

---------------------------------------------------------------------------
\* Bounds of the model.

\* Longest session, in seconds, that the model follows.
MaxElapsed == 4
\* Largest configured timeout and revisit period of a session in Spec.
MaxT == 3
MaxR == 2
\* Largest number of scan cycles handed to the pipeline in SpecFilter.
MaxCycles == 2
\* Largest number of entries of a filter map in SpecFilter.
MaxFilters == 2

---------------------------------------------------------------------------
VARIABLES
    DEFAULT_CONFIG, \* the module-level dictionary (mutable)
    role,           \* "advertiser" or "scanner": class of the controller
    pc,             \* where the controller is
    kwargs,         \* keyword arguments given to __init__
    attrs,          \* the controller's validated attributes
    handle,         \* __control_file_handle: "unset", "None", "open", "closed"
    service,        \* __service: "none" or "created"
    advertising,    \* whether the radio is advertising
    fileExists,     \* whether the control file path exists
    fileContent,    \* content of the control file
    extWritten,     \* an external actor wrote the file since the last reset point
    timeout,        \* effective timeout of the session (local of advertise/scan)
    elapsed,        \* time.monotonic() - start_time
    run,            \* loop flag
    timestamps,     \* scan(): cycle timestamps
    scans,          \* scan(): raw per-cycle results
    startCalls,     \* start_advertising calls of the session
    stopCalls,      \* stop_advertising calls of the session
    lastExit,       \* how the last session ended: "none", "clean", "fault"
    err,            \* exception that reached the caller of the last call
    advertisements, \* table handed to filter_advertisements
    filters,        \* filter map (in iteration order) of filter_advertisements
    output,         \* table returned by filter_advertisements
    parsed_args,    \* argument of the last load_config call
    config_yml,     \* content of the YAML file of the last load_config call
    config,         \* dictionary returned by the last load_config call
    staleAtStart,   \* during a session: it came after another one and found
                    \* content other than "0" in the file when it started
    prevExit,       \* during a session: how the session before it ended
    mainPc,         \* where main is: "none", "try", "returned", "raised"
    result,         \* what main returned
    reported        \* main logged "Fatal exception encountered"

ctlVars ==
    <<role, pc, kwargs, attrs, handle, service, advertising, fileExists,
      fileContent, extWritten, timeout, elapsed, run, timestamps, scans,
      startCalls, stopCalls, lastExit, err, staleAtStart, prevExit>>
filterVars == <<advertisements, filters, output>>
configVars == <<parsed_args, config_yml, config>>
mainVars == <<mainPc, result, reported>>
vars == <<DEFAULT_CONFIG, ctlVars, filterVars, configVars, mainVars>>

---------------------------------------------------------------------------
\* Attribute setters.  Each returns the exception it raises, or "none".

\* Advertiser.timeout / Scanner.timeout setter
TimeoutSetter(value) ==
    IF value /= PyNone
    THEN IF value.type \notin {"float", "int"} THEN "TypeError"
         ELSE IF value.val <= 0 THEN "ValueError"
         ELSE IF value.val > MAX_TIMEOUT THEN "ValueError"
         ELSE "none"
    ELSE "none"

\* Advertiser.major, minor, tx_power, interval setters
LimitSetter(value, limits) ==
    IF value.type /= "int" THEN "TypeError"
    ELSE IF value.val < limits[1] \/ value.val > limits[2] THEN "ValueError"
    ELSE "none"

\* Scanner.revisit setter
RevisitSetter(value) ==
    IF value.type /= "int" THEN "TypeError"
    ELSE IF value.val <= 0 THEN "ValueError"
    ELSE "none"

\* Scanner.filters setter
FiltersSetter(value) ==
    IF value.type /= "dict" THEN "TypeError"
    ELSE IF ~(\A i \in DOMAIN value.val : value.val[i].key \in ALLOWABLE_FILTERS)
         THEN "KeyError"
    ELSE "none"

\* control_file, scan_prefix and uuid setters: the value must be a string
StrSetter(value) == IF value.type /= "str" THEN "TypeError" ELSE "none"

\* The exception setattr(self, key, value) raises
SetterError(key, value) ==
    CASE key = "timeout" -> TimeoutSetter(value)
      [] key = "major" -> LimitSetter(value, MAJOR_LIMITS)
      [] key = "minor" -> LimitSetter(value, MINOR_LIMITS)
      [] key = "tx_power" -> LimitSetter(value, TX_POWER_LIMITS)
      [] key = "interval" -> LimitSetter(value, INTERVAL_LIMITS)
      [] key = "revisit" -> RevisitSetter(value)
      [] key = "filters" -> FiltersSetter(value)
      [] OTHER -> StrSetter(value)

\* The value a setter stores: the uuid setter replaces "" by str(uuid1()),
\* uuid1() returning u
Stored(key, value, u) ==
    IF key = "uuid" /\ ~Truthy(value) THEN StrUuid(u) ELSE value

\* Content of the control file after the control_file setter has run
\* (touch, chmod, open(mode='w'), write("0")).
SetterContent(old) == "0"

\* setattr(self, key, value) on the constructor's running state st
SetAttr(key, value, st) ==
    LET e == SetterError(key, value) IN
    IF e /= "none" THEN [st EXCEPT !.err = e]
    ELSE IF key = "control_file"
         THEN [st EXCEPT !.attrs[key] = value,
                         !.fileExists = TRUE,
                         !.fileContent = SetterContent(st.fileContent),
                         !.handle = "None"]
         ELSE [st EXCEPT !.attrs[key] = Stored(key, value, st.uuid1)]

\* The value __init__ hands to the setter of key: the keyword argument when it
\* is given and truthy, the default otherwise.
InitValue(r, kw, key) ==
    IF key \in DOMAIN kw /\ Truthy(kw[key]) THEN kw[key] ELSE DEFAULT_CONFIG[r][key]

\* The loop of __init__ over DEFAULT_CONFIG[role].items(), from the i-th key on;
\* it ends at the first setter that raises.
RECURSIVE InitLoop(_, _, _, _)
InitLoop(r, kw, i, st) ==
    IF i > Len(Keys(r)) \/ st.err /= "none" THEN st
    ELSE InitLoop(r, kw, i + 1, SetAttr(Keys(r)[i], InitValue(r, kw, Keys(r)[i]), st))

\* Advertiser.__init__ / Scanner.__init__ with keyword arguments kw;
\* svcOk: whether BeaconService(BLE_DEVICE) succeeds.  uuid1(), if called,
\* returns any of Uuid1Values.
Construct(r, kw, svcOk) ==
    /\ pc = "none"
    /\ \E u \in Uuid1Values :
       LET st0 == [attrs |-> attrs, err |-> "none", fileExists |-> fileExists,
                   fileContent |-> fileContent, handle |-> handle, uuid1 |-> u]
           st == InitLoop(r, kw, 1, st0)
       IN /\ attrs' = st.attrs
          /\ fileExists' = st.fileExists
          /\ fileContent' = st.fileContent
          /\ handle' = st.handle
          /\ IF st.err /= "none"
             THEN pc' = "failed" /\ err' = st.err /\ service' = "none"
             ELSE IF ~svcOk
             THEN pc' = "failed" /\ err' = "RadioServiceError" /\ service' = "none"
             ELSE pc' = "idle" /\ err' = "none" /\ service' = "created"
    /\ role' = r
    /\ kwargs' = kw
    /\ extWritten' = FALSE
    /\ UNCHANGED <<staleAtStart, prevExit, advertising, timeout, elapsed, run, timestamps, scans,
                   startCalls, stopCalls, lastExit>>
    /\ UNCHANGED <<DEFAULT_CONFIG, filterVars, configVars, mainVars>>

\* A destructor that unlinks only inside "if handle is not None" after a session.
DelUnlinks_OnlyAfterSession(h) == h \notin {"unset", "None"}

\* Whether __del__ reaches self.__control_file.unlink(): reading the handle
\* attribute raises AttributeError when the control_file setter never ran.
DelUnlinks(h) == h /= "unset"

\* Advertiser.__del__ / Scanner.__del__
Destroy ==
    /\ pc \in {"idle", "failed"}
    /\ pc' = "destroyed"
    /\ IF DelUnlinks(handle)
       THEN /\ handle' = IF handle = "None" THEN "None" ELSE "closed"
            /\ fileExists' = FALSE
       ELSE UNCHANGED <<handle, fileExists>>
    /\ UNCHANGED <<staleAtStart, prevExit, role, kwargs, attrs, service, advertising, fileContent,
                   extWritten, timeout, elapsed, run, timestamps, scans,
                   startCalls, stopCalls, lastExit, err>>
    /\ UNCHANGED <<DEFAULT_CONFIG, filterVars, configVars, mainVars>>

\* An external actor writes content c to the control file.
ExternalWrite(c) ==
    /\ fileExists
    /\ pc \notin {"none", "destroyed"}
    /\ fileContent /= c
    /\ fileContent' = c
    /\ extWritten' = TRUE
    /\ UNCHANGED <<staleAtStart, prevExit, role, pc, kwargs, attrs, handle, service, advertising,
                   fileExists, timeout, elapsed, run, timestamps, scans,
                   startCalls, stopCalls, lastExit, err>>
    /\ UNCHANGED <<DEFAULT_CONFIG, filterVars, configVars, mainVars>>

\* Contents an external actor writes.
Contents == {"0", "1", "stop"}

---------------------------------------------------------------------------
\* Scan record pipeline.  A dictionary is the sequence of its entries
\* [key, value] in iteration order; a table is the sequence of its rows, each a
\* function of the column names, "SCAN" being the index label.

Columns == <<"ADDRESS", "TIMESTAMP", "UUID", "MAJOR", "MINOR", "TX POWER", "RSSI">>

\* The dictionary process_scans builds for one advertisement
Advertisement(address, timestamp, payload) ==
    [c \in Range(Columns) |->
        CASE c = "ADDRESS" -> address
          [] c = "TIMESTAMP" -> timestamp
          [] c = "UUID" -> payload[1]
          [] c = "MAJOR" -> payload[2]
          [] c = "MINOR" -> payload[3]
          [] c = "TX POWER" -> payload[4]
          [] OTHER -> payload[5]]

\* itertools.zip_longest(a, b): the shorter sequence is padded with None
ZipLongest(a, b) ==
    [i \in 1..(IF Len(a) >= Len(b) THEN Len(a) ELSE Len(b)) |->
        <<IF i <= Len(a) THEN a[i] ELSE PyNone,
          IF i <= Len(b) THEN b[i] ELSE PyNone>>]

\* The advertisements of one scan, in the order of scan.items()
ScanRows(scan, timestamp) ==
    [j \in 1..Len(scan.val) |->
        Advertisement(scan.val[j].key, timestamp, scan.val[j].value)]

\* The list process_scans collects, from the i-th pair of the zip on
RECURSIVE CollectRows(_, _)
CollectRows(pairs, i) ==
    IF i > Len(pairs) THEN <<>>
    ELSE ScanRows(pairs[i][1], pairs[i][2]) \o CollectRows(pairs, i + 1)

\* pd.DataFrame(rows, columns=...): the rows indexed 0, 1, ...
DataFrame(rows) ==
    [i \in 1..Len(rows) |->
        [c \in Range(Columns) \cup {"SCAN"} |->
            IF c = "SCAN" THEN PyInt(i - 1) ELSE rows[i][c]]]

\* Whether process_scans raises: scan.items() on the None that zip_longest
\* pairs with a timestamp that has no scan (AttributeError)
ProcessScansRaises(scanList, timestampList) ==
    \E i \in DOMAIN ZipLongest(scanList, timestampList) :
        ZipLongest(scanList, timestampList)[i][1] = PyNone

\* Scanner.process_scans, when it returns
process_scans(scanList, timestampList) ==
    DataFrame(CollectRows(ZipLongest(scanList, timestampList), 1))

\* advertisements[key].isin([value]) for one row
IdMatch(field, value) == field = value

\* A range query that leaves out the upper bound itself.
InRange_UpperExclusive(field, value) ==
    /\ field.type \in {"int", "float"}
    /\ value.val[1].val <= field.val
    /\ field.val < value.val[2].val

\* The query "value[0] <= key and key <= value[1]" for one row
InRange(field, value) ==
    /\ field.type \in {"int", "float"}
    /\ value.val[1].val <= field.val
    /\ field.val <= value.val[2].val

\* Whether a row passes the filter entry f
Passes(row, f) ==
    IF f.key \in ID_FILTERS
    THEN IdMatch(row[f.key], f.value)
    ELSE InRange(row[f.key], f.value)

\* One iteration of the loop over self.filters.items()
FilterStep(table, f) ==
    LET Keep(row) == Passes(row, f) IN SelectSeq(table, Keep)

\* A loop that stops after the first entry of the map.
FilterLoop_FirstOnly(table, fs, i) ==
    IF Len(fs) = 0 THEN table ELSE FilterStep(table, fs[1])

\* The loop over self.filters.items(), from the i-th entry on
RECURSIVE FilterLoop(_, _, _)
FilterLoop(table, fs, i) ==
    IF i > Len(fs) THEN table
    ELSE FilterLoop(FilterStep(table, fs[i]), fs, i + 1)

\* advertisements.reset_index(inplace=True, drop=True)
ResetIndex(table) ==
    [i \in 1..Len(table) |-> [table[i] EXCEPT !["SCAN"] = PyInt(i - 1)]]

\* Scanner.filter_advertisements with self.filters = fs
filter_advertisements(fs, table) == ResetIndex(FilterLoop(table, fs, 1))

---------------------------------------------------------------------------
\* Sessions: advertise() and scan().  The locals of a call (timeout, elapsed,
\* run, timestamps, scans) are put back to their initial values when the call
\* returns or raises.

\* "if timeout == 0: timeout = self.timeout"
EffectiveTimeout(arg, own) ==
    IF arg.type \in {"int", "float"} /\ arg.val = 0 THEN own ELSE arg

\* A timeout test that fires as soon as the timeout is reached.
TimedOut_AtLeast(t, e) == t /= PyNone /\ e >= t.val

\* A timeout test that never fires.
TimedOut_Never(t, e) == FALSE

\* A timeout test that reads an unset timeout as zero seconds.
TimedOut_NoneAsZero(t, e) == e > t.val

\* "if timeout is not None: if (time.monotonic()-start_time) > timeout"
TimedOut(t, e) == t /= PyNone /\ e > t.val

\* A control test that stops on "1" alone.
ControlFlagStops_OnlyOne(control_flag) == control_flag = "1"

\* 'if control_flag != "0"'
ControlFlagStops(control_flag) == control_flag /= "0"

\* A session that leaves the content of the control file as it finds it.
SessionResetContent_Keep(old) == old

\* A session that truncates the control file and writes nothing.
SessionResetContent_Truncate(old) == ""

\* Content of the control file after "open(mode='w'); f.write("0")" at the
\* start and at the end of a session
SessionResetContent(old) == "0"

\* A start of advertise() that leaves the read handle as the last session left it.
AdvertiseStart_NoReopen(arg, fault) ==
    /\ pc = "idle" /\ role = "advertiser"
    /\ fileExists' = TRUE
    /\ fileContent' = SessionResetContent(fileContent)
    /\ extWritten' = FALSE
    /\ stopCalls' = 0
    /\ IF fault
       THEN /\ err' = "RadioServiceError"
            /\ lastExit' = "fault"
            /\ startCalls' = 0
            /\ timeout' = PyNone
            /\ staleAtStart' = FALSE /\ prevExit' = "none"
            /\ UNCHANGED <<pc, advertising, elapsed, run>>
       ELSE /\ timeout' = EffectiveTimeout(arg, attrs["timeout"])
            /\ advertising' = TRUE
            /\ startCalls' = 1
            /\ elapsed' = 0
            /\ run' = TRUE
            /\ err' = "none"
            /\ lastExit' = "none"
            /\ pc' = "sleep"
            /\ staleAtStart' = (lastExit /= "none" /\ fileContent /= "0")
            /\ prevExit' = lastExit
    /\ UNCHANGED <<role, kwargs, attrs, service, timestamps, scans, handle>>
    /\ UNCHANGED <<DEFAULT_CONFIG, filterVars, configVars, mainVars>>

\* advertise(timeout=arg) up to the loop; fault: start_advertising raises.
AdvertiseStart(arg, fault) ==
    /\ pc = "idle" /\ role = "advertiser"
    /\ fileExists' = TRUE
    /\ fileContent' = SessionResetContent(fileContent)
    /\ extWritten' = FALSE
    /\ stopCalls' = 0
    /\ IF fault
       THEN /\ err' = "RadioServiceError"
            /\ lastExit' = "fault"
            /\ startCalls' = 0
            /\ timeout' = PyNone
            /\ staleAtStart' = FALSE /\ prevExit' = "none"
            /\ UNCHANGED <<pc, advertising, handle, elapsed, run>>
       ELSE /\ timeout' = EffectiveTimeout(arg, attrs["timeout"])
            /\ advertising' = TRUE
            /\ startCalls' = 1
            /\ elapsed' = 0
            /\ handle' = "open"
            /\ run' = TRUE
            /\ err' = "none"
            /\ lastExit' = "none"
            /\ pc' = "sleep"
            /\ staleAtStart' = (lastExit /= "none" /\ fileContent /= "0")
            /\ prevExit' = lastExit
    /\ UNCHANGED <<role, kwargs, attrs, service, timestamps, scans>>
    /\ UNCHANGED <<DEFAULT_CONFIG, filterVars, configVars, mainVars>>

\* A sleep that a stop request cuts short: the loop is left at once.
AdvSleep_Interrupted ==
    /\ pc = "sleep" /\ role = "advertiser"
    /\ elapsed < MaxElapsed
    /\ IF fileContent /= "0"
       THEN pc' = "stopping" /\ run' = FALSE /\ elapsed' = elapsed
       ELSE pc' = "check" /\ run' = run /\ elapsed' = elapsed + CONTROL_INTERVAL
    /\ UNCHANGED <<staleAtStart, prevExit, role, kwargs, attrs, handle, service, advertising,
                   fileExists, fileContent, extWritten, timeout, timestamps, scans,
                   startCalls, stopCalls, lastExit, err>>
    /\ UNCHANGED <<DEFAULT_CONFIG, filterVars, configVars, mainVars>>

\* time.sleep(CONTROL_INTERVAL)
AdvSleep ==
    /\ pc = "sleep" /\ role = "advertiser"
    /\ elapsed < MaxElapsed
    /\ elapsed' = elapsed + CONTROL_INTERVAL
    /\ pc' = "check"
    /\ UNCHANGED <<staleAtStart, prevExit, role, kwargs, attrs, handle, service, advertising, fileExists,
                   fileContent, extWritten, timeout, run, timestamps, scans,
                   startCalls, stopCalls, lastExit, err>>
    /\ UNCHANGED <<DEFAULT_CONFIG, filterVars, configVars, mainVars>>

\* The two stop conditions evaluated at the end of a loop iteration, in
\* advertise() and in scan() alike: the value of run after them.
RunAfterCheck(t, e, control_flag) ==
    ~(TimedOut(t, e) \/ ControlFlagStops(control_flag))

\* The stop conditions of one iteration of the loop of advertise()
AdvCheck ==
    /\ pc = "check" /\ role = "advertiser"
    /\ run' = RunAfterCheck(timeout, elapsed, fileContent)
    /\ pc' = IF run' THEN "sleep" ELSE "stopping"
    /\ UNCHANGED <<staleAtStart, prevExit, role, kwargs, attrs, handle, service, advertising, fileExists,
                   fileContent, extWritten, timeout, elapsed, timestamps, scans,
                   startCalls, stopCalls, lastExit, err>>
    /\ UNCHANGED <<DEFAULT_CONFIG, filterVars, configVars, mainVars>>

\* An end of advertise() that cleans up without calling stop_advertising.
AdvStop_NoRadioStop(fault) ==
    /\ pc = "stopping" /\ role = "advertiser"
    /\ pc' = "idle"
    /\ handle' = "closed"
    /\ fileContent' = "0"
    /\ extWritten' = FALSE
    /\ lastExit' = "clean"
    /\ err' = "none"
    /\ timeout' = PyNone /\ elapsed' = 0 /\ run' = FALSE
    /\ UNCHANGED <<staleAtStart, prevExit, role, kwargs, attrs, service, fileExists, timestamps,
                   scans, startCalls, advertising, stopCalls>>
    /\ UNCHANGED <<DEFAULT_CONFIG, filterVars, configVars, mainVars>>

\* advertise() after the loop; fault: stop_advertising raises.
AdvStop(fault) ==
    /\ pc = "stopping" /\ role = "advertiser"
    /\ pc' = "idle"
    /\ IF fault
       THEN /\ err' = "RadioServiceError"
            /\ lastExit' = "fault"
            /\ UNCHANGED <<advertising, stopCalls, handle, fileContent, extWritten>>
       ELSE /\ advertising' = FALSE
            /\ stopCalls' = stopCalls + 1
            /\ handle' = "closed"
            /\ fileContent' = SessionResetContent(fileContent)
            /\ extWritten' = FALSE
            /\ lastExit' = "clean"
            /\ err' = "none"
    /\ timeout' = PyNone /\ elapsed' = 0 /\ run' = FALSE
    /\ staleAtStart' = FALSE /\ prevExit' = "none"
    /\ UNCHANGED <<role, kwargs, attrs, service, fileExists, timestamps, scans,
                   startCalls>>
    /\ UNCHANGED <<DEFAULT_CONFIG, filterVars, configVars, mainVars>>

\* scan(timeout=arg) up to the loop
ScanStart(arg) ==
    /\ pc = "idle" /\ role = "scanner"
    /\ timeout' = EffectiveTimeout(arg, attrs["timeout"])
    /\ fileExists' = TRUE
    /\ fileContent' = SessionResetContent(fileContent)
    /\ extWritten' = FALSE
    /\ staleAtStart' = (lastExit /= "none" /\ fileContent /= "0")
    /\ prevExit' = lastExit
    /\ handle' = "open"
    /\ run' = TRUE
    /\ timestamps' = <<>>
    /\ scans' = <<>>
    /\ elapsed' = 0
    /\ err' = "none"
    /\ lastExit' = "none"
    /\ pc' = "cycle"
    /\ advertisements' = <<>> /\ filters' = <<>> /\ output' = <<>>
    /\ UNCHANGED <<role, kwargs, attrs, service, advertising, startCalls,
                   stopCalls>>
    /\ UNCHANGED <<DEFAULT_CONFIG, configVars, mainVars>>

\* A cycle that records the scan result without its timestamp.
ScanCycle_NoTimestamp(raw, fault) ==
    /\ pc = "cycle" /\ role = "scanner"
    /\ elapsed < MaxElapsed
    /\ IF fault
       THEN /\ err' = "RadioServiceError"
            /\ lastExit' = "fault"
            /\ pc' = "idle"
            /\ timeout' = PyNone /\ elapsed' = 0 /\ run' = FALSE
            /\ timestamps' = <<>> /\ scans' = <<>>
            /\ staleAtStart' = FALSE /\ prevExit' = "none"
       ELSE /\ timestamps' = timestamps
            /\ scans' = Append(scans, raw)
            /\ elapsed' = elapsed + attrs["revisit"].val
            /\ pc' = "check"
            /\ UNCHANGED <<err, lastExit, timeout, run, staleAtStart, prevExit>>
    /\ UNCHANGED <<role, kwargs, attrs, handle, service, advertising, fileExists,
                   fileContent, extWritten, startCalls, stopCalls>>
    /\ UNCHANGED <<DEFAULT_CONFIG, filterVars, configVars, mainVars>>

\* One scan cycle: the timestamp is recorded, the radio scans for self.revisit
\* seconds and returns the dictionary raw; fault: the radio raises instead.
ScanCycle(raw, fault) ==
    /\ pc = "cycle" /\ role = "scanner"
    /\ elapsed < MaxElapsed
    /\ IF fault
       THEN /\ err' = "RadioServiceError"
            /\ lastExit' = "fault"
            /\ pc' = "idle"
            /\ timeout' = PyNone /\ elapsed' = 0 /\ run' = FALSE
            /\ timestamps' = <<>> /\ scans' = <<>>
            /\ staleAtStart' = FALSE /\ prevExit' = "none"
       ELSE /\ timestamps' = Append(timestamps, PyInt(elapsed))
            /\ scans' = Append(scans, raw)
            /\ elapsed' = elapsed + attrs["revisit"].val
            /\ pc' = "check"
            /\ UNCHANGED <<err, lastExit, timeout, run, staleAtStart, prevExit>>
    /\ UNCHANGED <<role, kwargs, attrs, handle, service, advertising, fileExists,
                   fileContent, extWritten, startCalls, stopCalls>>
    /\ UNCHANGED <<DEFAULT_CONFIG, filterVars, configVars, mainVars>>

\* The stop conditions of one iteration of the loop of scan()
ScanCheck ==
    /\ pc = "check" /\ role = "scanner"
    /\ run' = RunAfterCheck(timeout, elapsed, fileContent)
    /\ pc' = IF run' THEN "cycle" ELSE "stopping"
    /\ UNCHANGED <<staleAtStart, prevExit, role, kwargs, attrs, handle, service, advertising, fileExists,
                   fileContent, extWritten, timeout, elapsed, timestamps, scans,
                   startCalls, stopCalls, lastExit, err>>
    /\ UNCHANGED <<DEFAULT_CONFIG, filterVars, configVars, mainVars>>

\* scan() after the loop: cleanup, then the collected scans are processed,
\* filtered and returned.
ScanStop ==
    /\ pc = "stopping" /\ role = "scanner"
    /\ handle' = "closed"
    /\ fileContent' = SessionResetContent(fileContent)
    /\ extWritten' = FALSE
    /\ advertisements' = process_scans(scans, timestamps)
    /\ filters' = attrs["filters"].val
    /\ output' = filter_advertisements(attrs["filters"].val, advertisements')
    /\ lastExit' = "clean"
    /\ err' = "none"
    /\ pc' = "idle"
    /\ timeout' = PyNone /\ elapsed' = 0 /\ run' = FALSE
    /\ timestamps' = <<>> /\ scans' = <<>>
    /\ staleAtStart' = FALSE /\ prevExit' = "none"
    /\ UNCHANGED <<role, kwargs, attrs, service, advertising, fileExists,
                   startCalls, stopCalls>>
    /\ UNCHANGED <<DEFAULT_CONFIG, configVars, mainVars>>

---------------------------------------------------------------------------
\* The pipeline on its own (SpecFilter): scan() hands the collected scans and
\* timestamps to process_scans and the table to filter_advertisements.

ProcessScans ==
    /\ pc = "collected"
    /\ IF ProcessScansRaises(scans, timestamps)
       THEN /\ err' = "AttributeError"
            /\ pc' = "failed"
            /\ UNCHANGED advertisements
       ELSE /\ advertisements' = process_scans(scans, timestamps)
            /\ pc' = "processed"
            /\ UNCHANGED err
    /\ UNCHANGED <<staleAtStart, prevExit, role, kwargs, attrs, handle, service, advertising, fileExists,
                   fileContent, extWritten, timeout, elapsed, run, timestamps,
                   scans, startCalls, stopCalls, lastExit>>
    /\ UNCHANGED <<DEFAULT_CONFIG, filters, output, configVars, mainVars>>

FilterAdvertisements ==
    /\ pc = "processed"
    /\ output' = filter_advertisements(filters, advertisements)
    /\ pc' = "filtered"
    /\ UNCHANGED <<staleAtStart, prevExit, role, kwargs, attrs, handle, service, advertising, fileExists,
                   fileContent, extWritten, timeout, elapsed, run, timestamps,
                   scans, startCalls, stopCalls, lastExit, err>>
    /\ UNCHANGED <<DEFAULT_CONFIG, advertisements, filters, configVars, mainVars>>

---------------------------------------------------------------------------
\* load_config.

\* {**defaults, **loaded}
DictMerge(defaults, loaded) ==
    [k \in DOMAIN defaults \cup DOMAIN loaded |->
        IF k \in DOMAIN loaded THEN loaded[k] ELSE defaults[k]]

\* The loop over parsed_args.items() for one section of the configuration
MergeArgs(section, pa) ==
    [k \in DOMAIN section |->
        IF k \in DOMAIN pa /\ pa[k] /= PyNone THEN pa[k] ELSE section[k]]

\* Whether len(value) is defined: it raises TypeError for a number
HasLen(value) == value.type \in {"list", "dict", "str"}

\* Whether the tests of the loop over the filters raise for entry f:
\* len(value) is reached for a measurement filter whose value is not None
FilterRaises(f) ==
    /\ f.key \in ALLOWABLE_FILTERS
    /\ f.value /= PyNone
    /\ f.key \in MEASUREMENT_FILTERS
    /\ ~HasLen(f.value)

\* Whether the loop over the filters appends the key of entry f to
\* filters_to_remove
FilterToRemove(f) ==
    IF f.key \notin ALLOWABLE_FILTERS THEN TRUE
    ELSE IF f.value = PyNone THEN TRUE
    ELSE f.key \in MEASUREMENT_FILTERS /\ Len(f.value.val) /= 2

\* The exception the loop over the filters raises, or "none"
RemoveError(fs) ==
    IF fs /= PyNone /\ (\E i \in DOMAIN fs.val : FilterRaises(fs.val[i]))
    THEN "TypeError"
    ELSE "none"

\* "Remove malformed filters"
RemoveMalformed(fs) ==
    IF fs /= PyNone
    THEN LET Keep(f) == ~FilterToRemove(f) IN PyDict(SelectSeq(fs.val, Keep))
    ELSE fs

\* The dictionary load_config works on before the filters are cleaned: the
\* module's DEFAULT_CONFIG itself when no file is given, the loaded file with
\* its two sections merged over the defaults otherwise.
MergedConfig(pa, yml) ==
    LET base == IF pa["config_yml"] = PyNone
                THEN DEFAULT_CONFIG
                ELSE [yml EXCEPT
                        !["advertiser"] =
                            DictMerge(DEFAULT_CONFIG["advertiser"], yml["advertiser"]),
                        !["scanner"] =
                            DictMerge(DEFAULT_CONFIG["scanner"], yml["scanner"])]
    IN [base EXCEPT !["advertiser"] = MergeArgs(base["advertiser"], pa),
                    !["scanner"] = MergeArgs(base["scanner"], pa)]

\* load_config(parsed_args) where the file named by config_yml, if any, holds
\* yml.  Without a file the returned dictionary is DEFAULT_CONFIG itself, so
\* every assignment lands in DEFAULT_CONFIG; with a file the sections are new
\* dictionaries, and the filters dictionary is the default one only when the
\* file's scanner section names no filters.  When the loop over the filters
\* raises, nothing is returned and nothing has been deleted.
LoadConfigCall(pa, yml) ==
    /\ pc = "none"
    /\ (pa["config_yml"] = PyNone) <=> (yml = PyNone)
    /\ LET merged == MergedConfig(pa, yml)
           e == RemoveError(merged["scanner"]["filters"])
       IN IF e /= "none"
          THEN /\ config' = PyNone
               /\ err' = e
               /\ DEFAULT_CONFIG' =
                    IF pa["config_yml"] = PyNone THEN merged ELSE DEFAULT_CONFIG
          ELSE LET cleaned == RemoveMalformed(merged["scanner"]["filters"])
                   returned == [merged EXCEPT !["scanner"]["filters"] = cleaned]
               IN /\ config' = returned
                  /\ err' = "none"
                  /\ DEFAULT_CONFIG' =
                        IF pa["config_yml"] = PyNone THEN returned
                        ELSE IF "filters" \notin DOMAIN yml["scanner"]
                        THEN [DEFAULT_CONFIG EXCEPT !["scanner"]["filters"] = cleaned]
                        ELSE DEFAULT_CONFIG
    /\ parsed_args' = pa
    /\ config_yml' = yml
    /\ UNCHANGED <<role, pc, kwargs, attrs, handle, service, advertising,
                   fileExists, fileContent, extWritten, timeout, elapsed, run,
                   timestamps, scans, startCalls, stopCalls, lastExit,
                   staleAtStart, prevExit>>
    /\ UNCHANGED filterVars

\* load_config called on its own
LoadConfig(pa, yml) == LoadConfigCall(pa, yml) /\ UNCHANGED mainVars

---------------------------------------------------------------------------
\* main.

\* The controller main creates: Advertiser when parsed_args['advertiser'],
\* Scanner otherwise (the two modes exclude each other and one is required).
MainRole(pa) == IF pa["advertiser"].val THEN "advertiser" ELSE "scanner"

\* A pandas.DataFrame holding the rows table
PyTable(table) == [type |-> "DataFrame", val |-> table]

\* main up to its try block: parse_args and load_config.  An exception of
\* load_config leaves main, nothing being there to catch it.
MainSetup(pa, yml) ==
    /\ mainPc = "none"
    /\ LoadConfigCall(pa, yml)
    /\ mainPc' = IF err' = "none" THEN "try" ELSE "raised"
    /\ UNCHANGED <<result, reported>>

\* A main whose output is None before the try block: it returns in any case.
MainOutcome_AlwaysReturns(assigned) == "returned"

\* "return output": output is a local that only the end of the try block
\* assigns; reading it unassigned raises UnboundLocalError.
MainOutcome(assigned) == IF assigned THEN "returned" ELSE "raised"

\* main from the end of its try block on: the except clause logs an
\* exception of the constructor or of the session, the logger is closed, and
\* output is returned.
MainReturn ==
    /\ mainPc = "try"
    /\ pc = "failed" \/ (pc = "idle" /\ lastExit /= "none")
    /\ LET assigned == pc = "idle" /\ lastExit = "clean" IN
        /\ reported' = ~assigned
        /\ mainPc' = MainOutcome(assigned)
        /\ IF mainPc' = "returned"
           THEN /\ result' = IF role = "advertiser" THEN PyNone ELSE PyTable(output)
                /\ err' = "none"
           ELSE /\ result' = Unset
                /\ err' = "UnboundLocalError"
    /\ UNCHANGED <<role, pc, kwargs, attrs, handle, service, advertising,
                   fileExists, fileContent, extWritten, timeout, elapsed, run,
                   timestamps, scans, startCalls, stopCalls, lastExit,
                   staleAtStart, prevExit>>
    /\ UNCHANGED <<DEFAULT_CONFIG, filterVars, configVars>>

\* Exit status of the script: main(sys.argv[1:]) is its last statement, and
\* an exception that leaves it ends the interpreter with status 1.
ExitStatus == IF mainPc = "raised" THEN 1 ELSE 0

---------------------------------------------------------------------------
\* Inputs.

Roles == {"advertiser", "scanner"}

\* A filter map and the raw results of a scan cycle used in sessions.
RssiFilter == [key |-> "RSSI", value |-> PyList(<<PyInt(-68), PyInt(-60)>>)]
Payload(rssi) == <<PyStr("uuid1"), PyInt(1), PyInt(2), PyInt(-59), PyInt(rssi)>>
RawScans ==
    {PyDict(<<[key |-> PyStr("AA:BB"), value |-> Payload(-65)]>>),
     PyDict(<<[key |-> PyStr("AA:BB"), value |-> Payload(-70)]>>)}

\* Keyword arguments of the controllers whose sessions Spec follows.
SessionKwargs(r) ==
    IF r = "advertiser"
    THEN {[control_file |-> c, timeout |-> t, major |-> m] :
            c \in {PyStr("beacon_control"), PyInt(7)},
            t \in {PyNone} \cup {PyInt(n) : n \in 1..MaxT},
            m \in {PyInt(5), PyInt(70000)}}
    ELSE {[control_file |-> c, timeout |-> t, revisit |-> v, filters |-> f] :
            c \in {PyStr("beacon_control"), PyInt(7)},
            t \in {PyNone} \cup {PyInt(n) : n \in 1..MaxT},
            v \in {PyInt(n) : n \in 1..MaxR},
            f \in {PyDict(<<>>), PyDict(<<RssiFilter>>)}}

\* The timeout argument of advertise() and scan(): 0 stands for "use the
\* configured value"; any other value is used as it is.
TimeoutArgs == {PyInt(0), PyNone, PyInt(-1), PyInt(2)}

\* Keyword arguments of SpecCtor: values at, inside and outside every limit.
CtorKwargs(r) ==
    IF r = "advertiser"
    THEN {[control_file |-> c, timeout |-> t, uuid |-> u, major |-> ma,
           minor |-> mi, tx_power |-> tx, interval |-> iv] :
            c \in {PyStr("beacon_control"), PyInt(7)},
            t \in {PyNone, PyInt(-1), PyInt(0), PyInt(2), PyFloat(2),
                   PyInt(MAX_TIMEOUT), PyInt(MAX_TIMEOUT + 1)},
            u \in {PyStr(""), PyStr("abc")},
            ma \in {PyInt(0), PyInt(1), PyInt(65535), PyInt(65536)},
            mi \in {PyInt(0), PyInt(1), PyInt(65536)},
            tx \in {PyInt(-41), PyInt(-40), PyInt(0), PyInt(4), PyInt(5)},
            iv \in {PyInt(0), PyInt(19), PyInt(20), PyInt(10000), PyInt(10001)}}
         \cup {[major |-> PyInt(5)]}
    ELSE {[control_file |-> c, scan_prefix |-> p, timeout |-> t, revisit |-> v,
           filters |-> f] :
            c \in {PyStr("beacon_control"), PyInt(7)},
            p \in {PyStr(""), PyStr("scan")},
            t \in {PyNone, PyInt(-1), PyInt(0), PyInt(2), PyFloat(2),
                   PyInt(MAX_TIMEOUT), PyInt(MAX_TIMEOUT + 1)},
            v \in {PyInt(-1), PyInt(0), PyInt(1), PyInt(3), PyFloat(1)},
            f \in {PyNone, PyDict(<<>>), PyDict(<<RssiFilter>>),
                   PyDict(<<[key |-> "NAME", value |-> PyStr("x")]>>)}}
         \cup {[revisit |-> PyInt(2)]}

---------------------------------------------------------------------------
\* Specifications.

InitCtl ==
    /\ role = "none"
    /\ pc = "none"
    /\ kwargs = [none |-> Unset]
    /\ attrs = [k \in AllKeys |-> Unset]
    /\ handle = "unset"
    /\ service = "none"
    /\ advertising = FALSE
    /\ fileExists = FALSE
    /\ fileContent = ""
    /\ extWritten = FALSE
    /\ timeout = PyNone
    /\ elapsed = 0
    /\ run = FALSE
    /\ timestamps = <<>>
    /\ scans = <<>>
    /\ startCalls = 0
    /\ stopCalls = 0
    /\ lastExit = "none"
    /\ err = "none"
    /\ staleAtStart = FALSE
    /\ prevExit = "none"

InitFilterIdle ==
    /\ advertisements = <<>>
    /\ filters = <<>>
    /\ output = <<>>

InitConfigIdle ==
    /\ parsed_args = [config_yml |-> PyNone]
    /\ config_yml = PyNone
    /\ config = PyNone
    /\ mainPc = "none"
    /\ result = Unset
    /\ reported = FALSE

Init ==
    /\ DEFAULT_CONFIG = BuiltinDefaults
    /\ InitCtl
    /\ InitFilterIdle
    /\ InitConfigIdle

Next ==
    \/ /\ pc = "none"
       /\ \E r \in Roles : \E kw \in SessionKwargs(r) : \E ok \in BOOLEAN :
            Construct(r, kw, ok)
    \/ Destroy
    \/ \E c \in Contents : ExternalWrite(c)
    \/ \E a \in TimeoutArgs : \E fault \in BOOLEAN : AdvertiseStart(a, fault)
    \/ AdvSleep
    \/ AdvCheck
    \/ \E fault \in BOOLEAN : AdvStop(fault)
    \/ \E a \in TimeoutArgs : ScanStart(a)
    \/ \E raw \in RawScans : \E fault \in BOOLEAN : ScanCycle(raw, fault)
    \/ ScanCheck
    \/ ScanStop

Spec == Init /\ [][Next]_vars

\* advertise() is sequential code: time.sleep returns, the stop conditions
\* are then evaluated, and the statements after the loop run.
AdvProgress ==
    /\ WF_vars(AdvSleep)
    /\ WF_vars(AdvCheck)
    /\ WF_vars(\E fault \in BOOLEAN : AdvStop(fault))

FairSpec == Spec /\ AdvProgress

NextCtor ==
    \/ /\ pc = "none"
       /\ \E r \in Roles : \E kw \in CtorKwargs(r) : \E ok \in BOOLEAN :
            Construct(r, kw, ok)
    \/ Destroy

SpecCtor == Init /\ [][NextCtor]_vars

\* Raw results of a scan cycle handed to the pipeline in SpecFilter.
Payloads ==
    <<<<PyStr("uuid1"), PyInt(1), PyInt(2), PyInt(-59), PyInt(-65)>>,
      <<PyStr("uuid1"), PyInt(1), PyInt(2), PyInt(-59), PyInt(-70)>>,
      <<PyStr("uuid2"), PyInt(1), PyInt(2), PyInt(-59), PyInt(-68)>>,
      <<PyStr("uuid1"), PyInt(3), PyInt(2), PyInt(-59), PyInt(-60)>>>>
PipelineScans ==
    {PyDict(<<>>),
     PyDict(<<[key |-> PyStr("AA:BB"), value |-> Payloads[1]]>>),
     PyDict(<<[key |-> PyStr("AA:BB"), value |-> Payloads[2]]>>),
     PyDict(<<[key |-> PyStr("AA:BB"), value |-> Payloads[3]]>>),
     PyDict(<<[key |-> PyStr("CC:DD"), value |-> Payloads[4]]>>),
     PyDict(<<[key |-> PyStr("AA:BB"), value |-> Payloads[1]],
              [key |-> PyStr("CC:DD"), value |-> Payloads[4]]>>)}

\* Entries of the filter maps of SpecFilter.
FilterEntries ==
    {[key |-> "ADDRESS", value |-> PyStr("AA:BB")],
     [key |-> "UUID", value |-> PyStr("uuid1")],
     [key |-> "MAJOR", value |-> PyInt(1)],
     [key |-> "RSSI", value |-> PyList(<<PyInt(-68), PyInt(-60)>>)],
     [key |-> "RSSI", value |-> PyList(<<PyInt(-65), PyInt(-65)>>)],
     [key |-> "TIMESTAMP", value |-> PyList(<<PyInt(1), PyInt(1)>>)]}

\* Sequences over S of length at most n
SeqsUpTo(S, n) == UNION {[1..k -> S] : k \in 0..n}

\* Timestamp lists of process_scans: the i-th cycle was stamped i
TimestampLists == {[i \in 1..k |-> PyInt(i)] : k \in 0..MaxCycles}

\* Filter maps: a dictionary has no key twice
FilterMaps ==
    {fs \in SeqsUpTo(FilterEntries, MaxFilters) :
        \A i, j \in DOMAIN fs : i /= j => fs[i].key /= fs[j].key}

InitFilter ==
    /\ DEFAULT_CONFIG = BuiltinDefaults
    /\ role = "scanner"
    /\ pc = "collected"
    /\ kwargs = [none |-> Unset]
    /\ attrs = [k \in AllKeys |-> Unset]
    /\ handle = "unset"
    /\ service = "none"
    /\ advertising = FALSE
    /\ fileExists = FALSE
    /\ fileContent = ""
    /\ extWritten = FALSE
    /\ timeout = PyNone
    /\ elapsed = 0
    /\ run = FALSE
    /\ scans \in SeqsUpTo(PipelineScans, MaxCycles)
    /\ timestamps \in TimestampLists
    /\ startCalls = 0
    /\ stopCalls = 0
    /\ lastExit = "none"
    /\ err = "none"
    /\ staleAtStart = FALSE
    /\ prevExit = "none"
    /\ advertisements = <<>>
    /\ filters \in FilterMaps
    /\ output = <<>>
    /\ InitConfigIdle

NextFilter ==
    \/ ProcessScans
    \/ FilterAdvertisements

SpecFilter == InitFilter /\ [][NextFilter]_vars

\* Arguments of load_config: vars(parser.parse_args(args)).
ParsedArgs ==
    {[advertiser |-> PyBool(a), scanner |-> PyBool(~a), config_yml |-> y,
      control_file |-> c, scan_prefix |-> PyNone, timeout |-> t, uuid |-> PyNone,
      major |-> m, minor |-> PyNone, tx_power |-> PyNone, interval |-> PyNone,
      revisit |-> v] :
        a \in BOOLEAN,
        y \in {PyNone, PyStr("config.yml")},
        c \in {PyNone, PyStr("cli_control")},
        t \in {PyNone, PyFloat(5)},
        m \in {PyNone, PyInt(7)},
        v \in {PyNone, PyInt(3)}}

\* Entries of the filter maps of configuration files: well-formed ones, an
\* unknown key, a null value, ranges with one and three bounds, and a single
\* number where a range is expected.
YamlFilterEntries ==
    {RssiFilter,
     [key |-> "UUID", value |-> PyStr("uuid1")],
     [key |-> "NAME", value |-> PyStr("x")],
     [key |-> "MAJOR", value |-> PyNone],
     [key |-> "RSSI", value |-> PyList(<<PyInt(-68)>>)],
     [key |-> "TIMESTAMP", value |-> PyList(<<PyInt(1), PyInt(2), PyInt(3)>>)],
     [key |-> "RSSI", value |-> PyInt(-60)]}

\* Filter maps of configuration files: a dictionary has no key twice
YamlFilterMaps ==
    {fs \in SeqsUpTo(YamlFilterEntries, MaxFilters) :
        \A i, j \in DOMAIN fs : i /= j => fs[i].key /= fs[j].key}

\* Contents of the configuration file: sections naming some of the fields.
YamlFiles ==
    {[advertiser |-> [major |-> PyInt(9), timeout |-> PyInt(30)],
      scanner |-> [revisit |-> PyInt(2)]],
     [advertiser |-> [uuid |-> PyStr("abc")],
      scanner |-> [timeout |-> PyNone, filters |-> PyDict(<<RssiFilter>>)]]}

\* Configuration files whose scanner section names filters (or "filters:"
\* with nothing after it).
FilterYamlFiles ==
    {[advertiser |-> [uuid |-> PyStr("abc")],
      scanner |-> [timeout |-> PyNone, filters |-> f]] :
            f \in {PyNone} \cup {PyDict(fs) : fs \in YamlFilterMaps}}

\* "--scanner --config_yml config.yml": a file and no override
FileOnlyArgs ==
    [advertiser |-> PyBool(FALSE), scanner |-> PyBool(TRUE),
     config_yml |-> PyStr("config.yml"),
     control_file |-> PyNone, scan_prefix |-> PyNone, timeout |-> PyNone,
     uuid |-> PyNone, major |-> PyNone, minor |-> PyNone, tx_power |-> PyNone,
     interval |-> PyNone, revisit |-> PyNone]

\* Command lines and configuration files of the runs of main.
MainArgs ==
    {[advertiser |-> PyBool(a), scanner |-> PyBool(~a), config_yml |-> y,
      control_file |-> PyNone, scan_prefix |-> PyNone, timeout |-> t,
      uuid |-> PyNone, major |-> m, minor |-> PyNone, tx_power |-> PyNone,
      interval |-> PyNone, revisit |-> PyNone] :
        a \in BOOLEAN,
        y \in {PyNone, PyStr("config.yml")},
        t \in {PyNone, PyFloat(2)},
        m \in {PyNone, PyInt(7), PyInt(70000)}}
MainYamlFiles ==
    {[advertiser |-> [tx_power |-> PyInt(-20), interval |-> PyInt(100)],
      scanner |-> [revisit |-> PyInt(2), filters |-> PyDict(<<RssiFilter>>)]],
     [advertiser |-> [major |-> PyInt(5)],
      scanner |-> [filters |-> PyDict(<<[key |-> "RSSI", value |-> PyInt(-60)]>>)]]}

InitConfig ==
    /\ DEFAULT_CONFIG = BuiltinDefaults
    /\ InitCtl
    /\ InitFilterIdle
    /\ InitConfigIdle

NextConfig ==
    \/ \E pa \in ParsedArgs : \E yml \in YamlFiles \cup {PyNone} : LoadConfig(pa, yml)
    \/ \E yml \in FilterYamlFiles : LoadConfig(FileOnlyArgs, yml)

SpecConfig == InitConfig /\ [][NextConfig]_vars

\* One run of main: setup, construction of the controller from the loaded
\* configuration, one session with the default timeout argument, return.
NextMain ==
    \/ \E pa \in MainArgs : \E yml \in MainYamlFiles \cup {PyNone} : MainSetup(pa, yml)
    \/ /\ mainPc = "try" /\ pc = "none"
       /\ \E ok \in BOOLEAN :
            Construct(MainRole(parsed_args), config[MainRole(parsed_args)], ok)
    \/ /\ mainPc = "try" /\ lastExit = "none"
       /\ \E fault \in BOOLEAN : AdvertiseStart(PyInt(0), fault)
    \/ AdvSleep
    \/ AdvCheck
    \/ \E fault \in BOOLEAN : AdvStop(fault)
    \/ /\ mainPc = "try" /\ lastExit = "none"
       /\ ScanStart(PyInt(0))
    \/ \E raw \in RawScans : \E fault \in BOOLEAN : ScanCycle(raw, fault)
    \/ ScanCheck
    \/ ScanStop
    \/ /\ mainPc = "try"
       /\ \E c \in Contents : ExternalWrite(c)
    \/ MainReturn

SpecMain == Init /\ [][NextMain]_vars

---------------------------------------------------------------------------
\* Properties of the controllers.

\* The documented range of a numeric attribute (class docstrings).
InDocumentedRange(key, v) ==
    CASE key = "timeout" -> v = PyNone \/ (v.val > 0 /\ v.val <= 600)
      [] key \in {"major", "minor"} -> v.val >= 1 /\ v.val <= 65535
      [] key = "tx_power" -> v.val >= -40 /\ v.val <= 4
      [] key = "interval" -> v.val >= 20 /\ v.val <= 10000
      [] key = "revisit" -> v.val > 0
      [] OTHER -> TRUE
NumericKeys == {"timeout", "major", "minor", "tx_power", "interval", "revisit"}

\* The documented type of an attribute.
HasDocumentedType(key, v) ==
    CASE key = "timeout" -> v.type \in {"NoneType", "int", "float"}
      [] key \in {"major", "minor", "tx_power", "interval", "revisit"} ->
            v.type = "int"
      [] key = "filters" ->
            v.type = "dict" /\ \A i \in DOMAIN v.val : v.val[i].key \in ALLOWABLE_FILTERS
      [] OTHER -> v.type = "str"

\* The constructor has returned or raised, and nothing happened since.
JustConstructed == pc \in {"idle", "failed"} /\ lastExit = "none" /\ ~extWritten

\* C1: when the radio service fails during a session, the teardown still runs
\* before the error reaches the caller: the radio is asked to stop advertising
\* (advertiser), the read handle is closed and the control file is reset to "0".
C1_TeardownOnFault ==
    lastExit = "fault" =>
        /\ handle /= "open"
        /\ ~extWritten => fileContent = "0"
        /\ role = "advertiser" => stopCalls >= 1

\* The scan loop has just been left on the timeout alone, with a timeout T in
\* range.
ScanTimedOutAlone ==
    /\ role = "scanner" /\ pc = "stopping" /\ ~extWritten
    /\ timeout /= PyNone /\ timeout.val > 0 /\ timeout.val <= MAX_TIMEOUT

\* C2 (as stated): with timeout T, revisit R and cycles of exactly R seconds,
\* the elapsed time E at loop exit satisfies T <= E < T + R.
C2_ElapsedBelowTPlusR ==
    ScanTimedOutAlone =>
        timeout.val <= elapsed /\ elapsed < timeout.val + attrs["revisit"].val

\* C2 (amended): the loop leaves at the first cycle end whose elapsed time
\* strictly exceeds T: no cycle starts after T is exceeded, and at loop exit
\* T < E <= T + R, E being the least multiple of R above T.
C2_ElapsedAboveTAtMostTPlusR ==
    /\ (role = "scanner" /\ pc = "cycle" /\ timeout /= PyNone /\ timeout.val > 0)
            => elapsed <= timeout.val
    /\ ScanTimedOutAlone =>
            /\ timeout.val < elapsed
            /\ elapsed <= timeout.val + attrs["revisit"].val
            /\ elapsed = attrs["revisit"].val * ((timeout.val \div attrs["revisit"].val) + 1)

\* A scan session left on a timeout that is an exact multiple of the revisit
\* period.
C2_Witness ==
    /\ ScanTimedOutAlone
    /\ attrs["revisit"].val = 2 /\ timeout.val = 2 /\ elapsed = 4

\* C3: a constructor given a value outside its documented range (0 included)
\* fails with a range-violation error.
C3_OutOfRangeRejected ==
    (/\ JustConstructed /\ err /= "RadioServiceError"
     /\ \A k \in DOMAIN kwargs : HasDocumentedType(k, kwargs[k])
     /\ \E k \in DOMAIN kwargs \cap NumericKeys : ~InDocumentedRange(k, kwargs[k]))
    => (pc = "failed" /\ err = "ValueError")

\* C4: a constructor given values inside their documented ranges succeeds and
\* stores each value as supplied (tx_power = 0 included).
C4_InRangeStored ==
    (/\ JustConstructed /\ err /= "RadioServiceError"
     /\ \A k \in DOMAIN kwargs :
            HasDocumentedType(k, kwargs[k]) /\ InDocumentedRange(k, kwargs[k]))
    => /\ pc = "idle"
       /\ \A k \in DOMAIN kwargs \cap NumericKeys : attrs[k] = kwargs[k]

\* C5: when construction fails with a validation error, no resource has been
\* acquired: the control file does not exist and no radio service was created.
C5_NoResourceOnValidationError ==
    (pc = "failed" /\ err \in {"TypeError", "ValueError", "KeyError"})
    => (~fileExists /\ service = "none")

\* C6: a poll that finds content other than "0" in the control file ends the
\* loop at that cycle, whatever the timeout.
C6_StopObservedAtPoll ==
    [][(pc = "check" /\ pc' /= "check" /\ fileContent /= "0")
            => (pc' = "stopping" /\ ~run')]_vars

\* A session without timeout left because of the content "stop".
C6_Witness ==
    pc = "stopping" /\ timeout = PyNone /\ ~run /\ fileContent = "stop"

\* C7: once the controller is destroyed the control file path does not exist.
C7_NoFileAfterDestroy == pc = "destroyed" => ~fileExists

\* A controller destroyed after a session that a radio fault aborted.
C7_Witness ==
    pc = "destroyed" /\ lastExit = "fault" /\ handle = "closed" /\ ~fileExists

\* C8: right after the control_file setter and right after the reset at the
\* start of a session the content is "0", and a poll with no external write
\* since then (and no timeout) does not stop the loop.
C8_ZeroAfterOpenAndReset ==
    [][/\ (pc = "none" /\ handle' = "None") => (fileExists' /\ fileContent' = "0")
       /\ (pc = "idle" /\ pc' \in {"sleep", "cycle"})
            => (fileExists' /\ fileContent' = "0")
       /\ (pc = "check" /\ pc' /= "check" /\ ~extWritten
                /\ ~(timeout /= PyNone /\ elapsed > timeout.val))
            => (pc' \in {"sleep", "cycle"} /\ run')]_vars

\* A loop that went on after a poll with no external write since the reset.
C8_Witness ==
    /\ pc \in {"sleep", "cycle"} /\ elapsed >= 1 /\ run
    /\ ~extWritten /\ fileContent = "0"

---------------------------------------------------------------------------
\* Properties of the pipeline and of load_config.

\* A row without its index label.
Record(row) == [c \in Range(Columns) |-> row[c]]

\* What the filter entry f asks of a record: equality with the target for an
\* identity filter, low <= field <= high for a measurement filter.
Satisfies(rec, f) ==
    IF f.key \in {"ADDRESS", "UUID", "MAJOR", "MINOR", "TX POWER"}
    THEN rec[f.key] = f.value
    ELSE f.value.val[1].val <= rec[f.key].val /\ rec[f.key].val <= f.value.val[2].val

\* C9: filter_advertisements returns exactly the records that satisfy every
\* configured filter, identity filters by equality and measurement filters
\* by an inclusive range.
C9_ExactlyTheMatchingRecords ==
    pc = "filtered" =>
        LET Matches(row) == \A i \in DOMAIN filters : Satisfies(Record(row), filters[i])
            kept == SelectSeq(advertisements, Matches)
        IN /\ Len(output) = Len(kept)
           /\ \A i \in DOMAIN output : Record(output[i]) = Record(kept[i])

\* Two cycles with RSSI -65 and -70 under the filter RSSI [-68, -60]: the one
\* record of the first cycle is returned.
C9_Witness ==
    /\ pc = "filtered"
    /\ filters = <<RssiFilter>>
    /\ Len(scans) = 2 /\ Len(advertisements) = 2
    /\ advertisements[1]["RSSI"] = PyInt(-65)
    /\ advertisements[2]["RSSI"] = PyInt(-70)
    /\ Len(output) = 1
    /\ output[1]["RSSI"] = PyInt(-65) /\ output[1]["TIMESTAMP"] = PyInt(1)

\* The value C10 describes for field k of a section: the command-line
\* override, else the file's value, else the built-in default.
Layered(section, k) ==
    IF k \in DOMAIN parsed_args /\ parsed_args[k] /= PyNone THEN parsed_args[k]
    ELSE IF config_yml /= PyNone /\ k \in DOMAIN config_yml[section]
    THEN config_yml[section][k]
    ELSE BuiltinDefaults[section][k]

\* C10: every advertiser and scanner field of the configuration load_config
\* returns is the command-line override when given, else the file's value when
\* the file's section names the field, else the built-in default; every
\* recognized field is present.  (The filters are compared by C11.)
C10_LayeredPrecedence ==
    config /= PyNone =>
        \A section \in Roles :
            /\ Range(Keys(section)) \subseteq DOMAIN config[section]
            /\ \A k \in Range(Keys(section)) \ {"filters"} :
                    config[section][k] = Layered(section, k)

\* The filter map load_config starts from: the file's, else the default one.
InputFilters ==
    IF config_yml /= PyNone /\ "filters" \in DOMAIN config_yml["scanner"]
    THEN config_yml["scanner"]["filters"]
    ELSE BuiltinDefaults["scanner"]["filters"]

\* A malformed filter entry: a key outside the seven filter names, a null
\* value, or a TIMESTAMP/RSSI entry whose value is not a range of exactly two
\* bounds.
Malformed(f) ==
    \/ f.key \notin {"ADDRESS", "UUID", "MAJOR", "MINOR", "TX POWER",
                     "TIMESTAMP", "RSSI"}
    \/ f.value = PyNone
    \/ /\ f.key \in {"TIMESTAMP", "RSSI"}
       /\ ~(f.value.type = "list" /\ Len(f.value.val) = 2)

\* load_config has been called.
LoadConfigDone == config /= PyNone \/ err /= "none"

\* C11: after load_config the scanner filter map holds no malformed entry and
\* holds every well-formed entry of the input unchanged and in place, and a
\* malformed entry never makes load_config fail.
C11_MalformedDroppedWithoutFailure ==
    (LoadConfigDone /\ InputFilters /= PyNone) =>
        /\ err = "none"
        /\ config /= PyNone
        /\ LET WellFormed(f) == ~Malformed(f) IN
            config["scanner"]["filters"] =
                PyDict(SelectSeq(InputFilters.val, WellFormed))

\* The same without the failure: when load_config returns, the map is the
\* input without its malformed entries.
C11_DroppedWhenReturned ==
    (config /= PyNone /\ InputFilters /= PyNone) =>
        LET WellFormed(f) == ~Malformed(f) IN
        config["scanner"]["filters"] =
            PyDict(SelectSeq(InputFilters.val, WellFormed))

\* C12: the records process_scans produces from cycles that each have their
\* timestamp are grouped by address and, within one address, in ascending
\* order of timestamp: the rows of one address are contiguous.
C12_GroupedByAddress ==
    (pc \in {"processed", "filtered"} /\ Len(timestamps) = Len(scans)) =>
        \A i, j \in DOMAIN advertisements :
            (i < j /\ advertisements[i]["ADDRESS"] = advertisements[j]["ADDRESS"]) =>
                /\ \A k \in i..j :
                        advertisements[k]["ADDRESS"] = advertisements[i]["ADDRESS"]
                /\ advertisements[i]["TIMESTAMP"].val <= advertisements[j]["TIMESTAMP"].val

\* What process_scans does: the rows are in cycle order, hence in ascending
\* order of timestamp over the whole table when every cycle has its timestamp.
C12_InCycleOrder ==
    (pc \in {"processed", "filtered"} /\ Len(timestamps) = Len(scans)) =>
        \A i, j \in DOMAIN advertisements :
            i < j => advertisements[i]["TIMESTAMP"].val <= advertisements[j]["TIMESTAMP"].val

---------------------------------------------------------------------------
\* Properties of the sessions.

\* An advertiser session is in its loop with a timeout T in (0, MAX_TIMEOUT].
AdvTimedLoop ==
    /\ role = "advertiser" /\ pc \in {"sleep", "check"}
    /\ timeout /= PyNone /\ timeout.val > 0 /\ timeout.val <= MAX_TIMEOUT

\* C13: an advertiser session with a finite timeout T and no external stop
\* write terminates.  It is still in its loop while no poll has found more
\* than T seconds elapsed, it leaves the loop at the first poll that does (at
\* most one control interval after T), the radio is then asked to stop
\* advertising, and advertise() comes back to its caller.
C13_TimedSessionTerminates ==
    /\ []((AdvTimedLoop /\ pc = "sleep" /\ ~extWritten) => elapsed <= timeout.val)
    /\ []((role = "advertiser" /\ pc = "stopping" /\ ~extWritten
                /\ timeout /= PyNone /\ timeout.val > 0)
            => (timeout.val < elapsed /\ elapsed <= timeout.val + CONTROL_INTERVAL))
    /\ []((role = "advertiser" /\ pc = "idle" /\ lastExit = "clean")
            => (stopCalls = 1 /\ ~advertising))
    /\ [](AdvTimedLoop => <>(pc = "idle" /\ lastExit \in {"clean", "fault"}))

\* An advertiser with timeout 2 has left its loop at the poll 3 seconds in,
\* nothing having been written to the control file.
C13_Witness ==
    /\ role = "advertiser" /\ pc = "stopping" /\ ~extWritten
    /\ timeout = PyInt(2) /\ elapsed = 3 /\ ~run

\* C14: a stop signal does not leak from one session into the next.  An
\* orderly end leaves "0" in the control file; a session starts over "0"
\* whatever the file held before; and a loop is left on the control file only
\* when the file was written during the session itself.
C14_NoStaleStop ==
    [][/\ (pc = "stopping" /\ pc' = "idle" /\ lastExit' = "clean")
            => fileContent' = "0"
       /\ (pc = "idle" /\ pc' \in {"sleep", "cycle"})
            => (fileContent' = "0" /\ ~extWritten')
       /\ (pc = "check" /\ pc' = "stopping" /\ ~extWritten)
            => (fileContent = "0" /\ timeout /= PyNone /\ elapsed > timeout.val)
      ]_vars

\* A session that came after another one, started over content other than
\* "0", and went on after its first poll.
C14_Witness ==
    /\ staleAtStart /\ pc \in {"sleep", "cycle"} /\ elapsed >= 1 /\ run
    /\ ~extWritten /\ fileContent = "0"

\* C15: with an unset timeout the elapsed time never ends a session.  A poll
\* that reads "0" keeps the loop running, however long the session has
\* lasted, and the loop is left only at a poll that reads something else.
C15_NoTimeoutNoTimedStop ==
    [][(pc = "check" /\ pc' /= "check" /\ timeout = PyNone)
            => /\ fileContent = "0" => (pc' \in {"sleep", "cycle"} /\ run')
               /\ fileContent /= "0" => (pc' = "stopping" /\ ~run')
      ]_vars

\* A session without timeout still in its loop after the longest time the
\* model follows.
C15_Witness ==
    /\ pc \in {"sleep", "cycle"} /\ timeout = PyNone /\ run
    /\ elapsed >= MaxElapsed /\ fileContent = "0"

---------------------------------------------------------------------------
\* Properties of main.

\* C16: main returns None after a clean advertiser session and the filtered
\* table after a clean scanner session; after an error of the constructor or
\* of the session the error has been reported and the run ends as a failure
\* (an exception leaves main, exit status not zero), no value being returned.
C16_MainOutcome ==
    /\ mainPc = "returned" =>
            /\ pc = "idle" /\ lastExit = "clean" /\ ExitStatus = 0
            /\ role = "advertiser" => result = PyNone
            /\ role = "scanner" =>
                    result = PyTable(filter_advertisements(attrs["filters"].val,
                                                          advertisements))
    /\ (mainPc \in {"returned", "raised"} /\ pc = "idle" /\ lastExit = "clean")
            => mainPc = "returned"
    /\ (mainPc \in {"returned", "raised"} /\ (pc = "failed" \/ lastExit = "fault"))
            => (reported /\ mainPc = "raised" /\ result = Unset /\ ExitStatus /= 0)

\* A scanner run that returned a table of one record out of two.
C16_TableReturned ==
    /\ mainPc = "returned" /\ role = "scanner" /\ result.type = "DataFrame"
    /\ Len(result.val) = 1 /\ Len(advertisements) = 2

\* An advertiser run that ended after the constructor rejected "--major 70000".
C16_Witness ==
    /\ mainPc = "raised" /\ role = "advertiser" /\ pc = "failed" /\ reported
    /\ parsed_args["major"] = PyInt(70000)

---------------------------------------------------------------------------
\* Properties of the UUID field.

\* The form 8-4-4-4-12: 36 characters, hyphens at 9, 14, 19 and 24, lower
\* case hexadecimal digits elsewhere.
IsCanonicalUuid(str) ==
    /\ Len(str) = 36
    /\ \A i \in 1..36 :
            IF i \in {9, 14, 19, 24}
            THEN SubSeq(str, i, i) = "-"
            ELSE SubSeq(str, i, i) \in
                    {"0", "1", "2", "3", "4", "5", "6", "7", "8", "9",
                     "a", "b", "c", "d", "e", "f"}

C17_VerbatimReached ==
    /\ role = "advertiser" /\ pc = "idle" /\ "uuid" \in DOMAIN kwargs
    /\ kwargs["uuid"] = PyStr("abc") /\ attrs["uuid"] = PyStr("abc")

---------------------------------------------------------------------------
\* Further properties of the sessions.

\* A session is running: its loop, or the statements after the loop.
InSession == pc \in {"sleep", "check", "cycle", "stopping"}

\* C18: the effective timeout of every running session is None or a number
\* in (0, 600], a timeout given as the method argument included.
C18_SessionTimeoutChecked ==
    InSession =>
        \/ timeout = PyNone
        \/ /\ timeout.type \in {"int", "float"}
           /\ timeout.val > 0 /\ timeout.val <= 600

\* The same for the sessions that run on the configured timeout alone.
C18_ConfiguredTimeoutChecked ==
    (InSession /\ timeout = attrs["timeout"]) =>
        \/ timeout = PyNone
        \/ /\ timeout.type \in {"int", "float"}
           /\ timeout.val > 0 /\ timeout.val <= 600

\* C19: in every cycle the stop conditions are evaluated after the blocking
\* operation of the cycle has completed.  The sleep and the scan run to
\* their end whatever the control file holds, the result of the scan is
\* appended, the loop flag is cleared by the evaluation that follows and by
\* nothing else, and a write to the control file changes nothing of the
\* session by itself.
C19_StopAfterBlocking ==
    [][/\ (pc = "sleep" /\ pc' /= "sleep")
            => (pc' = "check" /\ run' /\ elapsed' = elapsed + CONTROL_INTERVAL)
       /\ (pc = "cycle" /\ pc' /= "cycle" /\ lastExit' /= "fault")
            => /\ pc' = "check" /\ run'
               /\ elapsed' = elapsed + attrs["revisit"].val
               /\ Len(scans') = Len(scans) + 1
               /\ SubSeq(scans', 1, Len(scans)) = scans
               /\ Len(timestamps') = Len(scans')
       /\ (run /\ ~run' /\ lastExit' /= "fault") => (pc = "check" /\ pc' = "stopping")
       /\ (pc' = "stopping" /\ pc /= "stopping") => pc = "check"
       /\ fileContent' /= fileContent /\ pc' = pc
            => UNCHANGED <<run, elapsed, scans, timestamps, advertising>>
      ]_vars

\* A scan cycle has completed and its result is in the collected scans while
\* the control file already holds a stop request.
C19_Witness ==
    /\ role = "scanner" /\ pc = "check" /\ run /\ fileContent = "stop"
    /\ Len(scans) = 2 /\ Len(timestamps) = 2

\* C20: in an advertiser session without fault the radio calls are paired
\* and ordered.  start_advertising has been called once, and stop_advertising
\* not yet, all through the loop, which starts over a reset control file
\* with no time elapsed; after the return both have been called once, the
\* radio is not advertising, the read handle is closed and the file is reset.
\* A radio fault shows the order inside the two ends of the session: when
\* start_advertising raises the file is already reset and the read handle
\* not yet opened, when stop_advertising raises the handle is still open and
\* the file not yet rewritten.
C20_RadioCallsPaired ==
    /\ []((role = "advertiser" /\ pc \in {"sleep", "check", "stopping"})
            => (startCalls = 1 /\ stopCalls = 0 /\ advertising /\ handle = "open"))
    /\ []((role = "advertiser" /\ pc = "idle" /\ lastExit = "clean")
            => /\ startCalls = 1 /\ stopCalls = 1 /\ ~advertising
               /\ handle = "closed"
               /\ ~extWritten => fileContent = "0")
    /\ [][/\ (role = "advertiser" /\ pc = "idle" /\ pc' = "sleep")
                => (fileContent' = "0" /\ elapsed' = 0 /\ startCalls' = 1)
          /\ (role = "advertiser" /\ pc = "idle" /\ pc' = "idle"
                    /\ lastExit' = "fault" /\ lastExit /= "fault")
                => (fileContent' = "0" /\ handle' = handle /\ startCalls' = 0)
          /\ (role = "advertiser" /\ pc = "stopping" /\ lastExit' = "fault")
                => (handle' = "open" /\ fileContent' = fileContent /\ stopCalls' = 0)
         ]_vars

\* advertise() has returned after a session left on its timeout.
C20_Witness ==
    /\ role = "advertiser" /\ pc = "idle" /\ lastExit = "clean"
    /\ startCalls = 1 /\ stopCalls = 1 /\ ~advertising /\ handle = "closed"

\* C21: an advertiser that has completed a session and is idle again runs a
\* complete new session at the next advertise() call, however many sessions
\* came before.  At the call the control file still exists and is rewritten
\* to "0"; when start_advertising returns the radio advertises, the read
\* handle is open again and the polling loop starts from zero; the loop of a
\* later session is left under the same two conditions as the loop of the
\* first one; and its orderly end brings the controller back to idle over "0".
C21_NewSessionAfterIdle ==
    [][/\ (role = "advertiser" /\ pc = "idle" /\ lastExit = "clean")
            => (fileExists /\ handle = "closed" /\ ~advertising)
       /\ (role = "advertiser" /\ pc = "idle" /\ lastExit = "clean"
            /\ startCalls' /= startCalls)
            => (fileExists' /\ fileContent' = "0" /\ ~extWritten')
       /\ (role = "advertiser" /\ pc = "idle" /\ lastExit = "clean"
            /\ pc' /= "idle" /\ pc' /= "destroyed")
            => (/\ pc' = "sleep" /\ run' /\ elapsed' = 0
                /\ fileExists' /\ fileContent' = "0"
                /\ handle' = "open" /\ advertising' /\ startCalls' = 1)
       /\ (role = "advertiser" /\ prevExit = "clean" /\ pc = "check"
            /\ pc' /= "check")
            => (pc' = "stopping"
                  <=> (\/ fileContent /= "0"
                       \/ (timeout /= PyNone /\ elapsed > timeout.val)))
       /\ (role = "advertiser" /\ prevExit = "clean" /\ pc = "stopping"
            /\ lastExit' = "clean")
            => (/\ pc' = "idle" /\ fileExists' /\ fileContent' = "0"
                /\ handle' = "closed" /\ ~advertising')
      ]_vars

\* A session that followed a completed one, running: the radio advertises,
\* the handle is open, the file holds "0" and a poll has passed.
C21_Witness ==
    /\ role = "advertiser" /\ prevExit = "clean" /\ pc = "sleep"
    /\ elapsed >= 1 /\ run /\ advertising /\ handle = "open"
    /\ fileExists /\ fileContent = "0" /\ startCalls = 1

\* A session that followed a completed one has left its loop on its timeout.
C21_LaterSessionTimesOut ==
    /\ role = "advertiser" /\ prevExit = "clean" /\ pc = "stopping"
    /\ fileContent = "0" /\ timeout /= PyNone /\ elapsed > timeout.val

\* The cycle the k-th collected record comes from, counting from cycle i
RECURSIVE CycleOfRow(_, _, _)
CycleOfRow(scanList, k, i) ==
    IF i > Len(scanList) THEN 0
    ELSE IF k <= Len(scanList[i].val) THEN i
    ELSE CycleOfRow(scanList, k - Len(scanList[i].val), i + 1)

\* The number of records in the cycles from the i-th on
RECURSIVE RecordCount(_, _)
RecordCount(scanList, i) ==
    IF i > Len(scanList) THEN 0
    ELSE Len(scanList[i].val) + RecordCount(scanList, i + 1)

\* The table holds every record of every cycle, each with the timestamp of
\* its cycle, or None where the cycle has no timestamp
PaddedTable ==
    /\ Len(advertisements) = RecordCount(scans, 1)
    /\ \A k \in DOMAIN advertisements :
          LET c == CycleOfRow(scans, k, 1) IN
          advertisements[k]["TIMESTAMP"] =
              IF c <= Len(timestamps) THEN timestamps[c] ELSE PyNone

\* C22: process_scans does not abort on a scan sequence and a timestamp
\* sequence of different lengths, whichever is the shorter: it returns the
\* table of all records, and the records of a cycle without a timestamp
\* carry an absent timestamp.
C22_UnequalLengthsPadded ==
    (pc /= "collected" /\ Len(scans) /= Len(timestamps)) =>
        /\ pc /= "failed" /\ err = "none"
        /\ PaddedTable

\* The half of it that the code does: with fewer timestamps than scans the
\* table comes back padded, and with fewer scans than timestamps the call
\* raises AttributeError.
C22_PaddedOrAttributeError ==
    (pc /= "collected" /\ Len(scans) /= Len(timestamps)) =>
        IF Len(scans) > Len(timestamps)
        THEN pc /= "failed" /\ err = "none" /\ PaddedTable
        ELSE pc = "failed" /\ err = "AttributeError" /\ advertisements = <<>>

\* A table that came back with a record whose cycle had no timestamp.
C22_PaddedReached ==
    /\ pc = "processed" /\ Len(scans) > Len(timestamps)
    /\ \E k \in DOMAIN advertisements : advertisements[k]["TIMESTAMP"] = PyNone

\* The filter map fs iterated in the order p, a permutation of its positions
Reordered(fs, p) == [i \in DOMAIN fs |-> fs[p[i]]]

\* C23: the result of filter_advertisements does not depend on the order in
\* which the filter map is iterated.  For every other iteration order of the
\* same entries the call returns the same records in the same order, and the
\* returned table is indexed 0, 1, 2, ... without gaps.
C23_OrderIndependent ==
    pc = "filtered" =>
        /\ \A p \in Permutations(DOMAIN filters) :
              filter_advertisements(Reordered(filters, p), advertisements) = output
        /\ \A i \in DOMAIN output : output[i]["SCAN"] = PyInt(i - 1)

\* A call with two filters that each remove a record the other one keeps:
\* the intermediate tables of the two orders differ, the result is not empty
\* and it starts at a record that was not the first of the table.
C23_Witness ==
    /\ pc = "filtered" /\ Len(filters) = 2
    /\ Len(output) >= 1
    /\ Len(FilterStep(advertisements, filters[1])) > Len(output)
    /\ Len(FilterStep(advertisements, filters[2])) > Len(output)
    /\ FilterStep(advertisements, filters[1]) /= FilterStep(advertisements, filters[2])
    /\ Record(output[1]) /= Record(advertisements[1])

\* C24: a scanner session runs a full cycle before its stop conditions are
\* evaluated for the first time, and at every evaluation of the stop
\* conditions and at the hand-off to process_scans there is one timestamp per
\* scan result.  A session starts with a cycle and with nothing recorded;
\* every cycle adds one timestamp and one scan result at the end of the two
\* lists, so that the i-th timestamp is the one of the i-th cycle.
C24_OneTimestampPerCycle ==
    [][/\ (role = "scanner" /\ pc \in {"check", "stopping"})
            => (Len(scans) >= 1 /\ Len(timestamps) = Len(scans))
       /\ (role = "scanner" /\ pc = "idle" /\ pc' \notin {"idle", "destroyed"})
            => (pc' = "cycle" /\ scans' = <<>> /\ timestamps' = <<>>)
       /\ (role = "scanner" /\ pc = "cycle" /\ pc' = "check")
            => (/\ Len(scans') = Len(scans) + 1
                /\ Len(timestamps') = Len(timestamps) + 1
                /\ SubSeq(scans', 1, Len(scans)) = scans
                /\ SubSeq(timestamps', 1, Len(timestamps)) = timestamps)
       /\ (role = "scanner" /\ pc' = "check") => pc \in {"cycle", "check"}
       /\ (role = "scanner" /\ pc = "stopping" /\ pc' = "idle")
            => (/\ ~ProcessScansRaises(scans, timestamps)
                /\ advertisements' = process_scans(scans, timestamps)
                /\ \A k \in DOMAIN advertisements' :
                      advertisements'[k]["TIMESTAMP"] /= PyNone)
      ]_vars

\* A session that has run two cycles and left its loop: two scan results and
\* two distinct timestamps are about to be handed to process_scans.
C24_Witness ==
    /\ role = "scanner" /\ pc = "stopping"
    /\ Len(scans) = 2 /\ Len(timestamps) = 2
    /\ timestamps[1] /= timestamps[2]

\* A call of load_config without a file and without overrides has returned
NoFileNoOverrides ==
    /\ config /= PyNone
    /\ parsed_args["config_yml"] = PyNone
    /\ \A section \in Roles : \A k \in Range(Keys(section)) \cap DOMAIN parsed_args :
          parsed_args[k] = PyNone

\* C25: load_config leaves the built-in defaults as they are.  After any
\* sequence of calls the module's DEFAULT_CONFIG holds its original values,
\* and a call without a file and without overrides returns the original
\* default of every advertiser and scanner field.
C25_DefaultsUnchanged ==
    /\ DEFAULT_CONFIG = BuiltinDefaults
    /\ NoFileNoOverrides =>
          \A section \in Roles : \A k \in Range(Keys(section)) :
              config[section][k] = BuiltinDefaults[section][k]

\* What the code does: DEFAULT_CONFIG changes only in a call without a file
\* that carries an override, and a call with a file leaves it alone.
C25_ChangedOnlyByOverrideWithoutFile ==
    [][DEFAULT_CONFIG' /= DEFAULT_CONFIG =>
            /\ parsed_args'["config_yml"] = PyNone
            /\ \E section \in Roles :
                  \E k \in Range(Keys(section)) \cap DOMAIN parsed_args' :
                      parsed_args'[k] /= PyNone
      ]_vars

\* A call without a file and without overrides has returned a value other
\* than the built-in default.
C25_StaleDefaultReturned ==
    /\ NoFileNoOverrides
    /\ \E section \in Roles : \E k \in Range(Keys(section)) :
          config[section][k] /= BuiltinDefaults[section][k]

====
